---- MODULE Spec2Model ----
(***************************************************************************)
(* A model of the finance_ai analytics pipeline (src/src/finance_ai):      *)
(* prepare_transactions -> engineer_features -> detect_anomalies ->        *)
(* assess_data_quality, as run_analysis chains them.                       *)
(*                                                                         *)
(* Conventions.  A float amount is an integer number of currency units.    *)
(* A timestamp is the number of hours since 2024-01-01 00:00 (a Monday);   *)
(* NaT is the value pandas gives an unparsable date.  A float column that  *)
(* can be undefined holds NaN or Num(v).  A table is a sequence of rows    *)
(* (records), in positional order.                                         *)
(***************************************************************************)
EXTENDS Integers, Sequences, FiniteSets, TLC

VARIABLES cfg, input, raw, stage, processed, features, anomalies, quality,
          forecast, seasonal, insights, ids

vars == <<cfg, input, raw, stage, processed, features, anomalies, quality,
          forecast, seasonal, insights, ids>>

(***************************************************************************)
(* Bounds of the model.                                                    *)
(***************************************************************************)
MaxRows == 3

(***************************************************************************)
(* config.py: the default lexicons of FinanceAIConfig.                     *)
(***************************************************************************)
income_keywords ==
  <<
    "pagamento recebido", "recebido", "transferencia", "salary", "deposito",
    "estorno"
  >>

refund_keywords ==
  <<
    "estorno", "chargeback", "reversal", "refund"
  >>

subscription_keywords ==
  <<
    "spotify", "netflix", "microsoft", "apple", "amazon", "google",
    "openai", "nuv"
  >>

category_keywords ==
  <<
    [category |-> "Alimentacao", keywords |-> <<
       "yakide", "dominos", "subway", "pizz", "pizzaria", "rest",
       "restaurante", "ifood", "ubereats", "rapi", "padaria", "cafe",
       "cafeteria", "bistro", "lanch", "lanche", "mercado", "quiosque",
       "sushi", "burger", "fast food", "zona sul", "mate"
     >>],
    [category |-> "Supermercado", keywords |-> <<
       "supermercado", "hiper", "mercadopago", "mercado livre", "bahamas",
       "pao de acucar", "atacadao", "assai", "carrefour", "guanabara",
       "ultra", "casa do biscoito"
     >>],
    [category |-> "Transporte", keywords |-> <<
       "uber", "99", "cabify", "nupay", "clickbus", "rodoviaria",
       "passagem", "passagens", "bilhete", "metro", "bus", "trip",
       "pedagio", "estacionamento", "locadora"
     >>],
    [category |-> "Combustivel", keywords |-> <<
       "posto", "ipiranga", "shell", "petrobras", "combust", "gasolina",
       "diesel", "alcool"
     >>],
    [category |-> "Habitacao", keywords |-> <<
       "aluguel", "condominio", "imobili", "energia", "luz", "agua", "gas",
       "materiais", "construcao", "manutencao", "ferramenta"
     >>],
    [category |-> "Telecom", keywords |-> <<
       "internet", "banda larga", "fibra", "telefon", "celular", "claro",
       "vivo", "tim", "oi", "net", "sky"
     >>],
    [category |-> "Saude", keywords |-> <<
       "farm", "drog", "clin", "med", "hospital", "laboratorio", "odonto",
       "dental"
     >>],
    [category |-> "Educacao", keywords |-> <<
       "curso", "livro", "escola", "faculdade", "univers", "idioma",
       "catarse"
     >>],
    [category |-> "Servicos", keywords |-> <<
       "cassiano", "vivian", "serv", "consult", "pagamento", "okto",
       "assessoria", "assistencia", "contab", "agencia", "manutencao"
     >>],
    [category |-> "Entretenimento", keywords |-> <<
       "cinema", "teatro", "show", "evento", "ingresso", "netflix",
       "spotify", "prime video", "disney", "hbo", "game", "playstation",
       "xbox", "steam", "cinemark"
     >>],
    [category |-> "Lazer", keywords |-> <<
       "jfk", "taverna", "pub", "bar", "parque", "club", "piscina", "spa",
       "esporte"
     >>],
    [category |-> "Compras", keywords |-> <<
       "shopping", "loja", "varejo", "magalu", "americanas", "casas bahia",
       "shopee", "shein", "centauro", "fast shop", "decathlon", "riachuelo"
     >>],
    [category |-> "Beleza", keywords |-> <<
       "salon", "beleza", "cosmet", "perfum", "sephora", "barbearia",
       "estetica"
     >>],
    [category |-> "Pets", keywords |-> <<
       "petz", "petlove", "pet shop", "agropecu", "zoon"
     >>],
    [category |-> "Transferencias", keywords |-> <<
       "pix", "transferencia", "transfer", "ted", "doc", "envio", "enviar",
       "cash out", "picpay", "wise", "remessa"
     >>],
    [category |-> "Investimentos", keywords |-> <<
       "invest", "tesouro", "bolsa", "acoes", "fundos", "cdb", "lci", "lca",
       "xp", "rico", "modal", "corretora"
     >>],
    [category |-> "Tecnologia", keywords |-> <<
       "microsoft", "google", "apple", "amazon digital", "openai",
       "hardware", "software", "eletron", "gad"
     >>],
    [category |-> "Financeiro", keywords |-> <<
       "juros", "encerramento", "imposto", "iof", "tarifa", "taxa",
       "anuidade", "banco"
     >>],
    [category |-> "ImpostosETaxas", keywords |-> <<
       "iptu", "ipva", "darf", "licenc"
     >>],
    [category |-> "Seguros", keywords |-> <<
       "seguro", "porto seguro", "bradesco seguros", "sulamerica", "mapfre"
     >>],
    [category |-> "Viagem", keywords |-> <<
       "airbnb", "hotel", "ticket", "passagens", "viagem", "booking",
       "decolar", "maxmilhas"
     >>],
    [category |-> "Outros", keywords |-> <<
     >>]
  >>

\* AnomalyConfig.contamination, in hundredths
contamination == 5

min_months == 4

\* QualityConfig.score_threshold, in hundredths
score_threshold == -5

horizon_months == 6

seasonal_periods == 12

DefaultConfig ==
  [ date_column |-> "date",
    description_column |-> "title",
    amount_column |-> "amount",
    income_keywords |-> income_keywords,
    refund_keywords |-> refund_keywords,
    subscription_keywords |-> subscription_keywords,
    category_keywords |-> category_keywords,
    anomaly |-> [ contamination |-> contamination ],
    quality |-> [ min_months |-> min_months,
                  score_threshold |-> score_threshold ],
    forecast |-> [ horizon_months |-> horizon_months,
                   seasonal_periods |-> seasonal_periods ] ]

(***************************************************************************)
(* Values of pandas / Python that have no integer or string counterpart.   *)
(***************************************************************************)
NaT == -1

NaN == <<>>

Num(v) == <<v>>

NullTitle == "<NA>"

None == "None"

abs(x) == IF x < 0 THEN -x ELSE x

Range(s) == { s[i] : i \in DOMAIN s }

RECURSIVE SumSeq(_)
SumSeq(s) == IF s = <<>> THEN 0 ELSE Head(s) + SumSeq(Tail(s))

(***************************************************************************)
(* Python str operations, on ASCII text.                                   *)
(***************************************************************************)
\* str.lower(), letter by letter
LowerOf ==
  [ A |-> "a", B |-> "b", C |-> "c", D |-> "d", E |-> "e", F |-> "f",
    G |-> "g", H |-> "h", I |-> "i", J |-> "j", K |-> "k", L |-> "l",
    M |-> "m", N |-> "n", O |-> "o", P |-> "p", Q |-> "q", R |-> "r",
    S |-> "s", T |-> "t", U |-> "u", V |-> "v", W |-> "w", X |-> "x",
    Y |-> "y", Z |-> "z" ]

UpperCase == DOMAIN LowerOf

LowerCase == { LowerOf[c] : c \in UpperCase }

Digits == {"0", "1", "2", "3", "4", "5", "6", "7", "8", "9"}

CharAt(s, i) == SubSeq(s, i, i)

LowerChar(c) == IF c \in UpperCase THEN LowerOf[c] ELSE c

RECURSIVE lower(_)
lower(s) ==
  IF Len(s) = 0 THEN ""
  ELSE LowerChar(CharAt(s, 1)) \o lower(SubSeq(s, 2, Len(s)))

\* Python's `keyword in text`
Contains(keyword, text) ==
  \E i \in 1..(Len(text) - Len(keyword) + 1) :
     SubSeq(text, i, i + Len(keyword) - 1) = keyword

AnyKeywordIn(keywords, text) ==
  \E k \in 1..Len(keywords) : Contains(keywords[k], text)

\* str.replace(r"[^a-zA-Z0-9 ]", "", regex=True)
RECURSIVE KeepAlnumSpace(_)
KeepAlnumSpace(s) ==
  IF Len(s) = 0 THEN ""
  ELSE LET c == CharAt(s, 1)
           keep == c \in UpperCase \cup LowerCase \cup Digits \cup {" "}
       IN  (IF keep THEN c ELSE "") \o KeepAlnumSpace(SubSeq(s, 2, Len(s)))

RECURSIVE strip(_)
strip(s) ==
  IF Len(s) = 0 THEN s
  ELSE IF CharAt(s, 1) = " " THEN strip(SubSeq(s, 2, Len(s)))
  ELSE IF CharAt(s, Len(s)) = " " THEN strip(SubSeq(s, 1, Len(s) - 1))
  ELSE s

(***************************************************************************)
(* config.py: the keyword rules of FinanceAIConfig.                        *)
(***************************************************************************)
\* the loop of line 355 keeping the last category that matches
RECURSIVE LastCategory(_, _, _)
LastCategory(rules, k, description_lower) ==
  LET n == Len(rules) + 1 - k
  IN  IF k > Len(rules) THEN "Outros"
      ELSE IF AnyKeywordIn(rules[n].keywords, description_lower)
           THEN rules[n].category
           ELSE LastCategory(rules, k + 1, description_lower)

RECURSIVE FirstCategory(_, _, _)
FirstCategory(rules, k, description_lower) ==
  IF k > Len(rules) THEN "Outros"
  ELSE IF AnyKeywordIn(rules[k].keywords, description_lower)
       THEN rules[k].category
       ELSE FirstCategory(rules, k + 1, description_lower)

category_for_description(config, description) ==
  FirstCategory(config.category_keywords, 1, lower(description))

\* is_income without the rule of line 361
is_income_keywords_only(config, description, amount) ==
  AnyKeywordIn(config.income_keywords, lower(description))

is_income(config, description, amount) ==
  IF amount < 0 THEN TRUE
  ELSE AnyKeywordIn(config.income_keywords, lower(description))

is_refund(config, description, amount) ==
  IF amount < 0 THEN TRUE
  ELSE AnyKeywordIn(config.refund_keywords, lower(description))

is_subscription(config, description) ==
  AnyKeywordIn(config.subscription_keywords, lower(description))

(***************************************************************************)
(* preprocessing.py                                                        *)
(***************************************************************************)
\* _classify_transaction asking is_refund before is_income
_classify_refund_first(description, amount, config) ==
  LET abs_amount == abs(amount)
  IN  IF is_refund(config, description, amount)
        THEN [type |-> "refund", signed |-> abs_amount]
      ELSE IF is_income(config, description, amount)
        THEN [type |-> "income", signed |-> abs_amount]
      ELSE [type |-> "expense", signed |-> -abs_amount]

\* _classify_transaction storing the magnitude of an expense unsigned
_classify_unsigned_expense(description, amount, config) ==
  LET abs_amount == abs(amount)
  IN  IF is_income(config, description, amount)
        THEN [type |-> "income", signed |-> abs_amount]
      ELSE IF is_refund(config, description, amount)
        THEN [type |-> "refund", signed |-> abs_amount]
      ELSE [type |-> "expense", signed |-> abs_amount]

_classify_transaction(description, amount, config) ==
  LET abs_amount == abs(amount)
  IN  IF is_income(config, description, amount)
        THEN [type |-> "income", signed |-> abs_amount]
      ELSE IF is_refund(config, description, amount)
        THEN [type |-> "refund", signed |-> abs_amount]
      ELSE [type |-> "expense", signed |-> -abs_amount]

(***************************************************************************)
(* The calendar of 2024, as pandas computes .dt fields and period bounds.  *)
(***************************************************************************)
MonthLengths == <<31, 29, 31, 30, 31, 30, 31, 31, 30, 31, 30, 31>>

DayOf(ts) == ts \div 24

HourOf(ts) == ts % 24

MonthFirstDay(m) == SumSeq(SubSeq(MonthLengths, 1, m - 1))

MonthOfDay(d) ==
  CHOOSE m \in 1..Len(MonthLengths) :
     /\ MonthFirstDay(m) <= d
     /\ d < MonthFirstDay(m) + MonthLengths[m]

\* .dt.to_period("M").dt.to_timestamp(): midnight of the first day of the month
MonthStart(ts) == MonthFirstDay(MonthOfDay(DayOf(ts))) * 24

\* the label of a resample("M") bin: midnight of the last day of the month
MonthEnd(ts) ==
  LET m == MonthOfDay(DayOf(ts))
  IN  (MonthFirstDay(m) + MonthLengths[m] - 1) * 24

\* 2024-01-01 is a Monday, which pandas numbers 0
DayOfWeek(ts) == DayOf(ts) % 7

\* DataFrame column assignment: the columns of `new` are added to (or replace
\* those of) `row`
Assign(row, new) ==
  [f \in (DOMAIN row) \cup (DOMAIN new) |->
     IF f \in DOMAIN new THEN new[f] ELSE row[f]]

(***************************************************************************)
(* preprocessing.py: prepare_transactions.                                 *)
(***************************************************************************)
\* lines 33-34: rows whose date did not parse are dropped
DropNaT(dataframe) == SelectSeq(dataframe, LAMBDA r : r.date # NaT)

\* line 35 without the fillna
FillDescription_no_fillna(title) == title

\* line 35
FillDescription(title) == IF title = NullTitle THEN "Desconhecido" ELSE title

\* lines 38-60, for one row
PreparedRow(config, r) ==
  LET title == FillDescription(r.title)
      c == _classify_transaction(title, r.amount, config)
  IN  [ date |-> r.date,
        title |-> title,
        amount |-> c.signed,
        cfg_amount |-> IF config.amount_column = "amount" THEN c.signed
                       ELSE r.amount,
        transaction_type |-> c.type,
        category |-> category_for_description(config, title),
        is_subscription |-> is_subscription(config, lower(title)),
        abs_amount |-> abs(c.signed),
        day_of_week |-> DayOfWeek(r.date),
        is_weekend |-> IF DayOfWeek(r.date) \in {5, 6} THEN 1 ELSE 0,
        date_only |-> DayOf(r.date),
        month |-> MonthStart(r.date),
        year |-> 2024,
        hour |-> HourOf(r.date),
        merchant_clean |-> strip(KeepAlnumSpace(title)) ]

IndexPermutations(n) ==
  { p \in [1..n -> 1..n] : \A i, j \in 1..n : i # j => p[i] # p[j] }

\* the tables that hold the rows of a table in some order
RowOrders(rows) ==
  { [i \in 1..Len(rows) |-> rows[p[i]]] : p \in IndexPermutations(Len(rows)) }

IsSortedByDate(rows) ==
  \A i \in 1..(Len(rows) - 1) : rows[i].date <= rows[i + 1].date

\* no sorting at all
sort_values_keeps_order(rows) == {rows}

\* DataFrame.sort_values(date_column) with the default kind="quicksort", which
\* is not a stable sort: rows of equal date come out in an order the sort
\* algorithm of the build decides.  Every order of the ties is an outcome.
sort_values(rows) ==
  { s \in { [i \in 1..Len(rows) |-> rows[p[i]]] : p \in IndexPermutations(Len(rows)) } :
       IsSortedByDate(s) }

\* Series.cumsum()
cumsum(values) == [i \in 1..Len(values) |-> SumSeq(SubSeq(values, 1, i))]

Column(rows, name) == [i \in 1..Len(rows) |-> rows[i][name]]

WithRunningBalance(rows) ==
  LET balance == cumsum(Column(rows, "amount"))
  IN  [i \in 1..Len(rows) |->
         Assign(rows[i], [running_balance |-> balance[i]])]

\* The tables prepare_transactions can return.  It raises (KeyError: 0 at
\* line 47) when no row is left after line 34, and then returns nothing.
prepare_transactions(config, dataframe) ==
  LET kept == DropNaT(dataframe)
      rows == [i \in 1..Len(kept) |-> PreparedRow(config, kept[i])]
  IN  IF Len(kept) = 0 THEN {}
      ELSE { WithRunningBalance(s) : s \in sort_values(rows) }

(***************************************************************************)
(* feature_engineering.py: engineer_features.                              *)
(***************************************************************************)
\* lines 20-21: Series.where(condition, 0.0)
ExpenseSeries(rows) ==
  [i \in 1..Len(rows) |->
     IF rows[i].transaction_type = "expense" THEN rows[i].amount ELSE 0]

IncomeSeries(rows) ==
  [i \in 1..Len(rows) |->
     IF rows[i].transaction_type # "expense" THEN rows[i].amount ELSE 0]

\* Series.rolling("<days>D", min_periods=1).sum() at position i of a
\* time-indexed series: the window is closed on the right at position i and
\* holds the positions j <= i whose time is later than time(i) - days.
RollingSum(rows, values, i, days) ==
  SumSeq([j \in 1..i |->
            IF rows[j].date > rows[i].date - days * 24 THEN values[j] ELSE 0])

\* Series.resample("D").sum(), at day d
DailySum(rows, values, d) ==
  SumSeq([j \in 1..Len(rows) |->
            IF DayOf(rows[j].date) = d THEN values[j] ELSE 0])

RECURSIVE GCD(_, _)
GCD(a, b) == IF b = 0 THEN a ELSE GCD(b, a % b)

\* A z-score x / sqrt(y), y > 0, kept exactly: its sign and its square as a
\* fraction in lowest terms.
ZeroScore == [sign |-> 0, sq_num |-> 0, sq_den |-> 1]

ExactScore(x, y) ==
  IF x = 0 THEN ZeroScore
  ELSE LET g == GCD(x * x, y)
       IN  [sign |-> IF x < 0 THEN -1 ELSE 1,
            sq_num |-> (x * x) \div g,
            sq_den |-> y \div g]

\* lines 29-34: the z-score of the daily expense of day d against the
\* rolling(window=30, min_periods=7) mean and std(ddof=0) of the daily grid,
\* which starts on the day of the first row; NaN (fewer than 7 days, or a
\* zero std) becomes 0.0.
DailyZscore(rows, values, d) ==
  LET first == DayOf(rows[1].date)
      lo == IF d - 29 > first THEN d - 29 ELSE first
      n == d - lo + 1
      daily == [k \in 1..n |-> DailySum(rows, values, lo + k - 1)]
      s == SumSeq(daily)
      q == SumSeq([k \in 1..n |-> daily[k] * daily[k]])
      x == daily[n]
  IN  IF n < 7 \/ n * q - s * s = 0 THEN ZeroScore
      ELSE ExactScore(n * x - s, n * q - s * s)

\* Series.resample("M").sum(), for the bin of the month that holds ts
MonthlySum(rows, values, ts) ==
  SumSeq([j \in 1..Len(rows) |->
            IF MonthStart(rows[j].date) = MonthStart(ts) THEN values[j] ELSE 0])

\* lines 36-37: resample("M").sum().reindex(df.index, method="ffill").  The
\* bins are labelled with the midnight of the month's last day, from the
\* month of the first row on; a row takes the value of the last label that
\* is not later than its own time, and NaN when there is none.
MonthTotal(rows, values, i) ==
  LET ts == rows[i].date
  IN  IF ts >= MonthEnd(ts) THEN Num(MonthlySum(rows, values, ts))
      ELSE IF MonthStart(ts) > MonthStart(rows[1].date)
           THEN Num(MonthlySum(rows, values, MonthStart(ts) - 24))
           ELSE NaN

\* lines 20-40, on the rows in the order line 17 sorted them
FeaturesOfSorted(rows) ==
  LET expenses == ExpenseSeries(rows)
      incomes == IncomeSeries(rows)
  IN  [i \in 1..Len(rows) |->
         Assign(rows[i],
           [ rolling_7d_spend |-> RollingSum(rows, expenses, i, 7),
             rolling_30d_spend |-> RollingSum(rows, expenses, i, 30),
             rolling_90d_spend |-> RollingSum(rows, expenses, i, 90),
             rolling_7d_income |-> RollingSum(rows, incomes, i, 7),
             rolling_30d_income |-> RollingSum(rows, incomes, i, 30),
             daily_spend_zscore |->
               DailyZscore(rows, expenses, DayOf(rows[i].date)),
             month_total_expense |-> MonthTotal(rows, expenses, i),
             month_total_income |-> MonthTotal(rows, incomes, i) ])]

\* The tables engineer_features can return.
engineer_features(config, dataframe) ==
  { FeaturesOfSorted(s) : s \in sort_values(dataframe) }

(***************************************************************************)
(* anomaly_detection.py: detect_anomalies.  IsolationForest is a black     *)
(* box but for its contract: decision_function is negative exactly on the  *)
(* rows fit_predict labels -1 (outlier), and those are the rows that score *)
(* below the contamination percentile of the scores of the fitted rows:    *)
(* none of a single row, and of n rows at most 1 + the whole part of       *)
(* contamination * (n - 1).  Which rows is left open.  The score keeps     *)
(* only its sign.                                                          *)
(***************************************************************************)
MaxOutliers(config, n) ==
  IF n < 2 THEN 0 ELSE (config.anomaly.contamination * (n - 1)) \div 100 + 1

detect_anomalies(config, dataframe) ==
  { [i \in 1..Len(dataframe) |->
       Assign(dataframe[i],
         [ anomaly_score |-> IF i \in outliers THEN -1 ELSE 1,
           is_anomaly |-> i \in outliers ])] :
    outliers \in { o \in SUBSET (1..Len(dataframe)) :
                     Cardinality(o) <= MaxOutliers(config, Len(dataframe)) } }

(***************************************************************************)
(* data_quality.py: MonthlyDataQualityModel.                               *)
(***************************************************************************)
\* a mean of integers, kept exactly as a fraction in lowest terms
Ratio(num, den) ==
  LET g == GCD(abs(num), den)
  IN  [num |-> num \div g, den |-> den \div g]

\* the months of the table in ascending order (groupby("month").sort_index())
RECURSIVE SortedSeq(_)
SortedSeq(S) ==
  IF S = {} THEN <<>>
  ELSE LET m == CHOOSE x \in S : \A y \in S : x <= y
       IN  <<m>> \o SortedSeq(S \ {m})

Max(S) == CHOOSE x \in S : \A y \in S : y <= x

\* lines 51-95, for the rows of one month.  The dispersion columns (std_*)
\* and the means of amounts other than avg_expense and avg_income are left
\* out; every other column is exact.
MonthlyFeatureRow(month, rows) ==
  LET n == Len(rows)
      expense_value == [i \in 1..n |->
        IF rows[i].transaction_type = "expense" THEN -rows[i].amount ELSE 0]
      income_value == [i \in 1..n |->
        IF rows[i].transaction_type # "expense" THEN rows[i].amount ELSE 0]
      expense_sum == SumSeq(expense_value)
      income_sum == SumSeq(income_value)
      Count(name, value) ==
        SumSeq([i \in 1..n |->
          IF name \in DOMAIN rows[i] /\ rows[i][name] = value THEN 1 ELSE 0])
  IN  [ month |-> month,
        total_transactions |-> n,
        expense_sum |-> expense_sum,
        income_sum |-> income_sum,
        avg_expense |-> Ratio(expense_sum, n),
        avg_income |-> Ratio(income_sum, n),
        weekend_ratio |-> Ratio(Count("is_weekend", 1), n),
        subscription_ratio |-> Ratio(Count("is_subscription", TRUE), n),
        refund_ratio |-> Ratio(Count("transaction_type", "refund"), n),
        anomaly_ratio |-> Ratio(Count("is_anomaly", TRUE), n),
        missing_amount_ratio |-> Ratio(0, n),
        largest_expense |-> Max(Range(expense_value)),
        net_cashflow |-> income_sum - expense_sum,
        expense_per_transaction |-> Ratio(expense_sum, n),
        income_per_transaction |-> Ratio(income_sum, n) ]

\* lines 51-66: the flag columns _build_monthly_features writes into its
\* working table
WithQualityColumns(rows) ==
  [i \in 1..Len(rows) |->
     Assign(rows[i],
       [ expense_value |-> IF rows[i].transaction_type = "expense"
                             THEN -rows[i].amount ELSE 0,
         income_value |-> IF rows[i].transaction_type # "expense"
                            THEN rows[i].amount ELSE 0,
         refund_flag |-> IF rows[i].transaction_type = "refund" THEN 1 ELSE 0,
         subscription_flag |-> IF rows[i].is_subscription THEN 1 ELSE 0,
         weekend_flag |-> rows[i].is_weekend,
         anomaly_flag |-> IF "is_anomaly" \in DOMAIN rows[i] /\ rows[i].is_anomaly
                            THEN 1 ELSE 0,
         missing_amount_flag |-> 0 ])]

_build_monthly_features(dataframe) ==
  LET months == SortedSeq({ dataframe[i].month : i \in 1..Len(dataframe) })
  IN  [k \in 1..Len(months) |->
         MonthlyFeatureRow(months[k],
           SelectSeq(dataframe, LAMBDA r : r.month = months[k]))]

\* The decision_function of the fitted RobustScaler + OneClassSVM pipeline is
\* a black box: a month may score below the threshold or not.
QualityScores(config) ==
  { config.quality.score_threshold - 1, config.quality.score_threshold }

\* line 108 with the comparison off by one
TooFewMonths_off_by_one(n, config) == n + 1 < config.quality.min_months

\* line 108
TooFewMonths(n, config) == n < config.quality.min_months

\* lines 97-122: the results score() can return
score(config, dataframe) ==
  LET monthly_features == _build_monthly_features(dataframe)
      n == Len(monthly_features)
      threshold == config.quality.score_threshold
      Summary(scores) ==
        [k \in 1..n |->
           Assign(monthly_features[k],
             [ quality_score |-> scores[k],
               quality_flag |-> IF scores[k] = NaN THEN FALSE
                                ELSE scores[k][1] < threshold ])]
  IN  IF n = 0
        THEN { [monthly_summary |-> <<>>, model |-> None,
                threshold |-> threshold] }
      ELSE IF TooFewMonths(n, config)
        THEN { [monthly_summary |->
                  [k \in 1..n |->
                     Assign(monthly_features[k],
                       [ quality_score |-> Num(0),
                         quality_flag |-> FALSE ])],
                model |-> None,
                threshold |-> threshold] }
      ELSE { [monthly_summary |-> Summary([k \in 1..n |-> Num(s[k])]),
              model |-> "Pipeline",
              threshold |-> threshold] :
             s \in [1..n -> QualityScores(config)] }

assess_data_quality(config, dataframe) == score(config, dataframe)

(***************************************************************************)
(* forecasting.py: forecast_expenses.  Amounts of money that are means are *)
(* kept exactly, as fractions (Ratio); the index of a series is left out   *)
(* of a forecast, which is the sequence of its values.                     *)
(***************************************************************************)
\* lines 26-31: the expense records summed by month over the configured
\* amount column, months ascending, sign flipped
_prepare_monthly_expenses_without_anomalies(dataframe, config) ==
  LET expenses == SelectSeq(dataframe, LAMBDA r :
                    /\ r.transaction_type = "expense"
                    /\ ~("is_anomaly" \in DOMAIN r /\ r.is_anomaly))
      months == SortedSeq({ expenses[i].month : i \in 1..Len(expenses) })
  IN  [k \in 1..Len(months) |->
         [ month |-> months[k],
           monthly_expense |->
             -SumSeq([i \in 1..Len(expenses) |->
                        IF expenses[i].month = months[k]
                          THEN expenses[i].cfg_amount ELSE 0]) ]]

_prepare_monthly_expenses(dataframe, config) ==
  LET expenses == SelectSeq(dataframe, LAMBDA r :
                    r.transaction_type = "expense")
      months == SortedSeq({ expenses[i].month : i \in 1..Len(expenses) })
  IN  [k \in 1..Len(months) |->
         [ month |-> months[k],
           monthly_expense |->
             -SumSeq([i \in 1..Len(expenses) |->
                        IF expenses[i].month = months[k]
                          THEN expenses[i].cfg_amount ELSE 0]) ]]

\* Series.mean() of a series that is not empty
mean(values) == Ratio(SumSeq(values), Len(values))

\* the length of pd.date_range(start, periods=periods, freq="M")[1:]; a
\* negative number of periods raises ValueError, written -1 here
date_range_tail(periods) ==
  IF periods < 0 THEN -1 ELSE IF periods = 0 THEN 0 ELSE periods - 1

\* line 46
ShortHistoryPeriods(config) ==
  (IF config.forecast.horizon_months > 1
     THEN config.forecast.horizon_months ELSE 1) + 1

\* line 69
FallbackPeriods(config) == config.forecast.horizon_months + 1

\* line 42 with the limit off by one
HistoryTooShort_off_by_one(monthly_series) == Len(monthly_series) < 2

\* line 42
HistoryTooShort(monthly_series) == Len(monthly_series) < 3

\* what str(exc) can be when ExponentialSmoothing or its fit raises
ExceptionMessages ==
  { "Cannot compute initial seasonals using heuristic method with less than two full seasonal cycles in the data.",
    "endog must be strictly positive when using multiplicative trend or seasonal components." }

\* lines 53-62: statsmodels' ExponentialSmoothing(...).fit().forecast(steps)
\* is a library outside the repository: it either raises, or returns steps
\* values and a summary text.  The values are left open between two
\* candidates.
HoltWinters(monthly_series, config) ==
  LET values == Column(monthly_series, "monthly_expense")
      steps == IF config.forecast.horizon_months > 0
                 THEN config.forecast.horizon_months ELSE 0
  IN  { [raised |-> TRUE, exc |-> e, future |-> <<>>, summary |-> ""] :
          e \in ExceptionMessages }
      \cup
      { [raised |-> FALSE, exc |-> "", future |-> [i \in 1..steps |-> v],
         summary |-> "ExponentialSmoothing Model Results"] :
          v \in { mean(values), Ratio(SumSeq(values) + Len(values), Len(values)) } }

\* line 76 with the reason left out
FallbackSummary_without_reason(exc) == "Holt-Winters falhou; utilizando media."

\* line 76
FallbackSummary(exc) == "Holt-Winters falhou (" \o exc \o "); utilizando media."

\* pd.Timestamp.utcnow(): some time of the calendar
Now == MonthFirstDay(4) * 24

\* line 45 without its test: index[-1] of an empty index raises IndexError
ShortHistoryStart_unguarded(monthly_series) ==
  IF Len(monthly_series) > 0
    THEN { monthly_series[Len(monthly_series)].month }
  ELSE {}

\* line 45: the start of the forecast index, the last month of the history
\* or, without history, the current time
ShortHistoryStart(monthly_series) ==
  IF Len(monthly_series) > 0
    THEN { monthly_series[Len(monthly_series)].month }
  ELSE { Now }

\* line 43 projecting the last month instead of the mean
ShortHistoryMean_last_value(values) ==
  IF Len(values) > 0 THEN Ratio(values[Len(values)], 1) ELSE Ratio(0, 1)

\* line 43
ShortHistoryMean(values) ==
  IF Len(values) > 0 THEN mean(values) ELSE Ratio(0, 1)

\* lines 35-77: the results forecast_expenses can return, each with the use
\* made of the seasonal model ("not invoked", "fitted", "raised"); no
\* result when the call raises
forecast_expenses(config, dataframe) ==
  LET monthly_series == _prepare_monthly_expenses(dataframe, config)
      values == Column(monthly_series, "monthly_expense")
      Result(values_ahead, summary, model_use) ==
        [ history |-> monthly_series, forecast |-> values_ahead,
          model_summary |-> summary, seasonal |-> model_use ]
  IN  IF HistoryTooShort(monthly_series)
        THEN LET n == date_range_tail(ShortHistoryPeriods(config))
             IN  { Result([i \in 1..n |-> ShortHistoryMean(values)],
                          "Media simples por falta de dados.",
                          "not invoked") :
                   start \in ShortHistoryStart(monthly_series) }
      ELSE UNION {
             IF ~o.raised
               THEN { Result(o.future, o.summary, "fitted") }
             ELSE LET n == date_range_tail(FallbackPeriods(config))
                  IN  IF n < 0 THEN {}
                      ELSE { Result([i \in 1..n |-> mean(values)],
                                    FallbackSummary(o.exc), "raised") } :
             o \in HoltWinters(monthly_series, config) }

(***************************************************************************)
(* insights.py: generate_insight_report.                                   *)
(***************************************************************************)
\* float("nan"), as a fraction
NaNRatio == [num |-> 0, den |-> 0]

\* the sequences that hold each element of S once
Orderings(S) == { s \in [1..Cardinality(S) -> S] : Range(s) = S }

\* sort_values(ascending=False) on a column: descending, rows of equal value
\* in an order the sort decides
sort_values_descending(S, column) ==
  { s \in Orderings(S) :
      \A i \in 1..(Len(s) - 1) : s[i][column] >= s[i + 1][column] }

\* DataFrame.query("transaction_type == 'expense'")
ExpensesOf(df) == SelectSeq(df, LAMBDA r : r.transaction_type = "expense")

\* the sum of a column over the rows whose column named key holds value
SumWhere(df, column, key, value) ==
  SumSeq([i \in 1..Len(df) |->
            IF df[i][key] = value THEN df[i][column] ELSE 0])

\* lines 30-36: the tables _build_category_breakdown can return
_build_category_breakdown(df) ==
  LET expenses == ExpensesOf(df)
      categories == { expenses[i].category : i \in 1..Len(expenses) }
  IN  sort_values_descending(
        { [ category |-> c,
            total |-> abs(SumWhere(expenses, "amount", "category", c)) ] :
          c \in categories },
        "total")

\* lines 39-47: the tables _find_recurring_merchants can return
_find_recurring_merchants(df) ==
  LET expenses == ExpensesOf(df)
      merchants == { expenses[i].merchant_clean : i \in 1..Len(expenses) }
      Of(m) == SelectSeq(expenses, LAMBDA r : r.merchant_clean = m)
  IN  sort_values_descending(
        { [ merchant_clean |-> m,
            total_amount |-> -SumSeq(Column(Of(m), "amount")),
            transactions |-> Len(Of(m)),
            last_payment |-> Max(Range(Column(Of(m), "date"))) ] :
          m \in { x \in merchants : Len(Of(x)) >= 3 } },
        "total_amount")

\* line 64 with the missing mean replaced by zero
AverageOrZero_nan_is_zero(average) ==
  IF average.den = 0 \/ average.num = 0 THEN Ratio(0, 1) ELSE average

\* line 64: average_daily_spend or 0.0.  In Python only a zero is falsy, so
\* "or" replaces a zero mean by 0.0 and keeps NaN.
AverageOrZero(average) ==
  IF average.den # 0 /\ average.num = 0 THEN Ratio(0, 1) ELSE average

\* lines 50-65
_cashflow_metrics(df, config) ==
  LET expenses == ExpensesOf(df)
      total_expense == -SumSeq(Column(expenses, "cfg_amount"))
      total_income ==
        SumSeq(Column(SelectSeq(df, LAMBDA r : r.transaction_type # "expense"),
                      "cfg_amount"))
      days == { expenses[i].date_only : i \in 1..Len(expenses) }
      \* the mean of an empty series is NaN
      average_daily_spend ==
        IF days = {} THEN NaNRatio
        ELSE Ratio(-SumSeq(Column(expenses, "cfg_amount")), Cardinality(days))
  IN  [ total_expense |-> total_expense,
        total_income |-> total_income,
        net_cashflow |-> total_income - total_expense,
        average_daily_spend |-> AverageOrZero(average_daily_spend) ]

\* DataFrame.query("is_anomaly == True"); the table must have the column
AnomaliesOf(df) == SelectSeq(df, LAMBDA r : r.is_anomaly)

HasColumn(df, column) == \A i \in 1..Len(df) : column \in DOMAIN df[i]

\* lines 76-80
TopCategoryHighlight(breakdown) ==
  IF Len(breakdown) > 0
    THEN << [ kind |-> "Maior categoria de gasto",
              category |-> breakdown[1].category,
              total |-> breakdown[1].total ] >>
  ELSE <<>>

\* lines 81-83
DailyTicketHighlight(metrics) ==
  << [ kind |-> "Ticket medio diario",
       average_daily_spend |-> metrics.average_daily_spend ] >>

\* lines 84-88
ForecastHighlight(forecast_result) ==
  IF Len(forecast_result.forecast) > 0
    THEN << [ kind |-> "Gasto previsto para o proximo mes",
              next_month |-> forecast_result.forecast[1] ] >>
  ELSE <<>>

\* lines 89-94
AnomalyHighlight(df) ==
  LET flagged_rows == AnomaliesOf(df)
      merchants == { flagged_rows[i].merchant_clean : i \in 1..Len(flagged_rows) }
  IN  IF Len(flagged_rows) > 0
        THEN << [ kind |-> "Foram encontrados gastos atipicos",
                  count |-> Len(flagged_rows),
                  highlight_amt |->
                    -Max({ abs(SumWhere(flagged_rows, "amount",
                                        "merchant_clean", m)) :
                           m \in merchants }) ] >>
      ELSE <<>>

\* quality=None (line 113)
NoQuality == [monthly_summary |-> <<>>, model |-> None, threshold |-> 0]

\* lines 95-105; quality_result is NoQuality or a result of
\* assess_data_quality
QualityHighlight(quality_result) ==
  IF quality_result = NoQuality \/ Len(quality_result.monthly_summary) = 0
    THEN <<>>
  ELSE LET flagged == SelectSeq(quality_result.monthly_summary,
                                LAMBDA m : m.quality_flag)
       IN  IF Len(flagged) > 0
             THEN << [ kind |-> "Meses com possivel inconsistencia de dados",
                       month_labels |-> Column(flagged, "month") ] >>
           ELSE <<>>

\* lines 68-106
_build_highlights(df, breakdown, metrics, forecast_result, quality_result) ==
  TopCategoryHighlight(breakdown) \o DailyTicketHighlight(metrics)
    \o ForecastHighlight(forecast_result) \o AnomalyHighlight(df)
    \o QualityHighlight(quality_result)

\* DataFrame.sort_values("anomaly_score"): ascending, rows of equal score in
\* an order the sort decides
sort_values_by_score(rows) ==
  { s \in RowOrders(rows) :
      \A i \in 1..(Len(s) - 1) : s[i].anomaly_score <= s[i + 1].anomaly_score }

\* lines 109-134: the reports generate_insight_report can return; none when
\* the table has no is_anomaly column, as query("is_anomaly == True") raises
generate_insight_report(config, dataframe, forecast_result, quality_result) ==
  IF ~HasColumn(dataframe, "is_anomaly") THEN {}
  ELSE
    LET metrics == _cashflow_metrics(dataframe, config)
    IN  { [ headline |-> "Panorama financeiro consolidado",
            highlights |-> _build_highlights(dataframe, breakdown, metrics,
                             forecast_result, quality_result),
            category_breakdown |-> breakdown,
            recurring_merchants |-> recurring,
            cashflow_metrics |-> metrics,
            forecast |-> forecast_result,
            quality_summary |-> quality_result.monthly_summary,
            anomaly_table |-> anomaly_table ] :
          breakdown \in _build_category_breakdown(dataframe),
          recurring \in _find_recurring_merchants(dataframe),
          anomaly_table \in sort_values_by_score(AnomaliesOf(dataframe)) }

(***************************************************************************)
(* Inputs.                                                                 *)
(***************************************************************************)
Timestamp(month, day, hour) == (MonthFirstDay(month) + day - 1) * 24 + hour

\* a configuration that differs from the default one in quality.min_months
ShortHistoryConfig == [DefaultConfig EXCEPT !.quality.min_months = 2]

Configs == {DefaultConfig, ShortHistoryConfig}

\* one statement line in each of four calendar months
MonthlyRows ==
  { [date |-> Timestamp(1, 24, 0), title |-> "Uber Trip", amount |-> 25],
    [date |-> Timestamp(2, 1, 0), title |-> "Chargeback", amount |-> 10],
    [date |-> Timestamp(3, 15, 0), title |-> "Uber Trip", amount |-> 25],
    [date |-> Timestamp(4, 2, 0), title |-> "Salary", amount |-> 300] }

\* statement lines the input tables are made of: a month's last day at
\* midnight and at noon, two lines of one time, three calendar months, the
\* three transaction types, an unparsable date, a missing description
SampleRows ==
  { [date |-> Timestamp(1, 24, 0), title |-> "Uber Trip", amount |-> 25],
    [date |-> Timestamp(1, 31, 0), title |-> "Padaria", amount |-> 10],
    [date |-> Timestamp(1, 31, 12), title |-> "Netflix", amount |-> 40],
    [date |-> Timestamp(1, 31, 12), title |-> "Pagamento recebido",
     amount |-> -500],
    [date |-> Timestamp(2, 1, 0), title |-> "Chargeback", amount |-> 10],
    [date |-> Timestamp(3, 15, 0), title |-> NullTitle, amount |-> 25],
    [date |-> NaT, title |-> "Uber Trip", amount |-> 5] }

\* configurations that differ from the default one in forecast.horizon_months
ForecastConfigs ==
  { [DefaultConfig EXCEPT !.forecast.horizon_months = h] :
      h \in {0, horizon_months} }

\* a configuration whose amount column is not named "amount"
RenamedColumnConfig == [DefaultConfig EXCEPT !.amount_column = "valor"]

\* the default configuration and the one with the renamed amount column
ColumnConfigs == {DefaultConfig, RenamedColumnConfig}

\* statement lines of three expense months and one income
ExpenseRows ==
  { [date |-> Timestamp(1, 24, 0), title |-> "Uber Trip", amount |-> 25],
    [date |-> Timestamp(2, 1, 0), title |-> "Padaria", amount |-> 10],
    [date |-> Timestamp(3, 15, 0), title |-> "Netflix", amount |-> 40],
    [date |-> Timestamp(3, 20, 0), title |-> "Salary", amount |-> 300] }

Tables(rows, n) == UNION { [1..k -> rows] : k \in 0..n }

\* statement lines of each way a record gets its type: an expense, an income
\* by keyword, an income by its negative amount, a refund by keyword
ReprocessRows ==
  { [date |-> Timestamp(1, 24, 0), title |-> "Uber Trip", amount |-> 25],
    [date |-> Timestamp(2, 1, 0), title |-> "Chargeback", amount |-> 10],
    [date |-> Timestamp(3, 15, 0), title |-> "Pix", amount |-> -500],
    [date |-> Timestamp(3, 20, 0), title |-> "Salary", amount |-> 300] }

\* the tables prepare_transactions returns for the statements of ReprocessRows
ProducedTables ==
  UNION { prepare_transactions(DefaultConfig, dataframe) :
            dataframe \in Tables(ReprocessRows, MaxRows) }

\* descriptions, amounts and dates of the one-line tables
SampleTitles ==
  { "Uber Trip", "Pagamento recebido", "Estorno compra", "REFUND Amazon",
    "Chargeback", "Salary", "Netflix", "Supermercado Bahamas", "Padaria",
    "Spotify AB", "Desconhecido", "", "Posto Shell", "Pix enviado",
    "IFOOD *Rest", "Loja 99", "Mercado Livre", NullTitle }

SampleAmounts == {-500, -1, 0, 1, 25}

SampleDates == {Timestamp(1, 24, 0), Timestamp(2, 29, 12), NaT}

(***************************************************************************)
(* pipeline.py: run_analysis, one action per stage.  ids names the object  *)
(* each table is (0: none yet): a table written in place changes under     *)
(* every name of the object.                                               *)
(***************************************************************************)
NoTable == <<>>

NoResult == [monthly_summary |-> <<>>, model |-> None, threshold |-> 0]

NoForecast == [history |-> <<>>, forecast |-> <<>>, model_summary |-> ""]

NoReport ==
  [ headline |-> "", highlights |-> <<>>, category_breakdown |-> <<>>,
    recurring_merchants |-> <<>>,
    cashflow_metrics |-> [ total_expense |-> 0, total_income |-> 0,
                           net_cashflow |-> 0,
                           average_daily_spend |-> NaNRatio ],
    forecast |-> NoForecast, quality_summary |-> <<>>,
    anomaly_table |-> <<>> ]

NoObjects ==
  [ input |-> 1, raw |-> 0, processed |-> 0, features |-> 0, anomalies |-> 0,
    quality_summary |-> 0, forecast |-> 0, report_anomaly_table |-> 0,
    report_quality_summary |-> 0, report_forecast |-> 0 ]

Objects == { ids[name] : name \in DOMAIN ids }

\* an object that did not exist before
NewObject(objects) == Max(objects \cup {0}) + 1

\* no copy: the same object under a second name
copy_returns_the_table(object, objects) == object

\* DataFrame.copy()
copy(object, objects) == NewObject(objects)

Start(config, dataframe) ==
  /\ cfg = config
  /\ input = dataframe
  /\ raw = NoTable
  /\ stage = "start"
  /\ processed = NoTable
  /\ features = NoTable
  /\ anomalies = NoTable
  /\ quality = NoResult
  /\ forecast = NoForecast
  /\ seasonal = "not invoked"
  /\ insights = NoReport
  /\ ids = NoObjects

\* run_analysis(dataframe=...) on a table of statement lines
Init == \E dataframe \in Tables(SampleRows, MaxRows) :
           Start(DefaultConfig, dataframe)

\* run_analysis(dataframe=..., config=...) on a table of monthly lines
InitQuality ==
  \E config \in Configs, dataframe \in Tables(MonthlyRows, MaxRows) :
     Start(config, dataframe)

\* run_analysis(dataframe=...) on a one-line table, default configuration
InitRecord ==
  \E d \in SampleDates, t \in SampleTitles, a \in SampleAmounts :
     Start(DefaultConfig, <<[date |-> d, title |-> t, amount |-> a]>>)

\* run_analysis(dataframe=..., config=...) on a table of expense months
InitForecast ==
  \E config \in ForecastConfigs, dataframe \in Tables(ExpenseRows, MaxRows) :
     Start(config, dataframe)

\* run_analysis(dataframe=..., config=...) under either amount column name;
\* the field amount of an input row is the column the configuration names
InitColumns ==
  \E config \in ColumnConfigs, dataframe \in Tables(ExpenseRows, MaxRows) :
     Start(config, dataframe)

\* run_analysis(dataframe=...) on a table prepare_transactions produced
InitReprocess ==
  \E dataframe \in ProducedTables : Start(DefaultConfig, dataframe)

\* lines 56-57: raw = dataframe.copy()
Load ==
  /\ stage = "start"
  /\ raw' = input
  /\ ids' = [ids EXCEPT !.raw = copy(ids.input, Objects)]
  /\ stage' = "raw"
  /\ UNCHANGED <<cfg, input, processed, features, anomalies, quality,
                 forecast, seasonal, insights>>

\* line 60.  prepare_transactions works on a copy (preprocessing.py line 32)
\* and returns the table its dropna, sort_values and drop made.
Prepare ==
  /\ stage = "raw"
  /\ LET returned == prepare_transactions(cfg, raw)
         df == copy(ids.raw, Objects)
     IN  IF returned = {}
           THEN /\ stage' = "failed"
                /\ UNCHANGED <<processed, ids>>
           ELSE /\ stage' = "processed"
                /\ processed' \in returned
                /\ ids' = [ids EXCEPT
                             !.processed = NewObject(Objects \cup {df})]
  /\ UNCHANGED <<cfg, input, raw, features, anomalies, quality, forecast,
                 seasonal, insights>>

\* line 61.  engineer_features works on a copy (feature_engineering.py line
\* 16) and returns the table its sort_values made.
Engineer ==
  /\ stage = "processed"
  /\ features' \in engineer_features(cfg, processed)
  /\ LET df == copy(ids.processed, Objects)
     IN  ids' = [ids EXCEPT !.features = NewObject(Objects \cup {df})]
  /\ stage' = "features"
  /\ UNCHANGED <<cfg, input, raw, processed, anomalies, quality, forecast,
                 seasonal, insights>>

\* line 62.  score() writes anomaly_score and is_anomaly into its copy
\* (anomaly_detection.py lines 38-43) and returns it.
Detect ==
  /\ stage = "features"
  /\ anomalies' \in detect_anomalies(cfg, features)
  /\ LET df == copy(ids.features, Objects)
     IN  /\ ids' = [ids EXCEPT !.anomalies = df]
         /\ features' = IF df = ids.features THEN anomalies' ELSE features
  /\ stage' = "anomalies"
  /\ UNCHANGED <<cfg, input, raw, processed, quality, forecast, seasonal,
                 insights>>

\* line 63.  _build_monthly_features writes its flag columns into a copy of
\* the table _ensure_month_column handed back (data_quality.py lines 49-66);
\* the summary is a table of its own.
Assess ==
  /\ stage = "anomalies"
  /\ quality' \in assess_data_quality(cfg, anomalies)
  /\ LET df == copy(ids.anomalies, Objects)
     IN  /\ ids' = [ids EXCEPT
                      !.quality_summary = NewObject(Objects \cup {df})]
         /\ anomalies' = IF df = ids.anomalies
                           THEN WithQualityColumns(anomalies) ELSE anomalies
  /\ stage' = "quality"
  /\ UNCHANGED <<cfg, input, raw, processed, features, forecast, seasonal,
                 insights>>

\* line 64.  forecast_expenses writes into no table.
Forecast ==
  /\ stage = "quality"
  /\ \E result \in forecast_expenses(cfg, anomalies) :
        /\ forecast' = [ history |-> result.history,
                         forecast |-> result.forecast,
                         model_summary |-> result.model_summary ]
        /\ seasonal' = result.seasonal
  /\ ids' = [ids EXCEPT !.forecast = NewObject(Objects)]
  /\ stage' = "forecast"
  /\ UNCHANGED <<cfg, input, raw, processed, features, anomalies, quality,
                 insights>>

\* a call of generate_insight_report: the report holds the forecast and the
\* monthly summary it was given (insights.py lines 123, 131) and a copy of
\* the anomalous rows (line 121)
Compose(dataframe, quality_result) ==
  /\ stage = "forecast"
  /\ LET returned == generate_insight_report(cfg, dataframe, forecast,
                                             quality_result)
     IN  IF returned = {}
           THEN /\ stage' = "report failed"
                /\ UNCHANGED <<insights, ids>>
           ELSE /\ stage' = "insights"
                /\ insights' \in returned
                /\ ids' = [ids EXCEPT
                     !.report_anomaly_table = NewObject(Objects),
                     !.report_quality_summary =
                        IF quality_result = NoQuality
                          THEN NewObject(Objects) + 1
                          ELSE ids.quality_summary,
                     !.report_forecast = ids.forecast]
  /\ UNCHANGED <<cfg, input, raw, processed, features, anomalies, quality,
                 forecast, seasonal>>

\* lines 65-70
Insights == Compose(anomalies, quality)

\* generate_insight_report called on its own: on the table of either stage,
\* with or without a quality assessment
Report ==
  \E with_anomalies \in BOOLEAN, with_quality \in BOOLEAN :
     Compose(IF with_anomalies THEN anomalies ELSE features,
             IF with_quality THEN quality ELSE NoQuality)

Next ==
  Load \/ Prepare \/ Engineer \/ Detect \/ Assess \/ Forecast \/ Insights

NextReport ==
  Load \/ Prepare \/ Engineer \/ Detect \/ Assess \/ Forecast \/ Report

Spec == Init /\ [][Next]_vars

SpecRecord == InitRecord /\ [][Next]_vars

SpecQuality == InitQuality /\ [][Next]_vars

SpecForecast == InitForecast /\ [][Next]_vars

SpecReport == InitForecast /\ [][NextReport]_vars

SpecColumns == InitColumns /\ [][Next]_vars

SpecReprocess == InitReprocess /\ [][Next]_vars
(***************************************************************************)
(* Properties of the classifier, on one-line tables (SpecRecord).          *)
(***************************************************************************)
TransactionTypes == {"expense", "income", "refund"}

\* the single line given to prepare_transactions and the record it returned
Classified == stage = "processed" /\ Len(raw) = 1 /\ Len(processed) = 1

\* C1, as claimed: the record's transaction_type is one of expense, income,
\* refund, and its stored amount is negative exactly when it is an expense.
C1_NegativeIffExpense ==
  Classified =>
    /\ processed[1].transaction_type \in TransactionTypes
    /\ (processed[1].amount < 0) <=> (processed[1].transaction_type = "expense")

\* C1, amended: the type is one of the three, and the stored amount is
\* negative exactly when the record is an expense with a non-zero raw
\* amount; an expense of raw amount zero is stored as zero.
C1_NegativeIffNonZeroExpense ==
  Classified =>
    /\ processed[1].transaction_type \in TransactionTypes
    /\ (processed[1].amount < 0) <=>
         (processed[1].transaction_type = "expense" /\ raw[1].amount # 0)
    /\ raw[1].amount = 0 => processed[1].amount = 0

C1_ZeroExpenseClassified ==
  /\ Classified
  /\ raw[1].amount = 0
  /\ processed[1].transaction_type = "expense"

\* C2: a record of negative raw amount is income with stored amount
\* +abs(raw amount), whatever its description, refund keywords included.
C2_NegativeAmountIsIncome ==
  (Classified /\ raw[1].amount < 0) =>
    /\ processed[1].transaction_type = "income"
    /\ processed[1].amount = abs(raw[1].amount)
    /\ processed[1].amount > 0

C2_NegativeRefundClassified ==
  /\ Classified
  /\ raw[1].amount < 0
  /\ AnyKeywordIn(refund_keywords, lower(raw[1].title))
  /\ ~AnyKeywordIn(income_keywords, lower(raw[1].title))

\* C3: for a raw amount >= 0 the type is decided on the lowercased
\* description in this order: an income keyword gives income, otherwise a
\* refund keyword gives refund, otherwise expense.
C3_OrderedDispatch ==
  (Classified /\ raw[1].amount >= 0) =>
    LET d == lower(processed[1].title)
        income == \E k \in Range(income_keywords) : Contains(k, d)
        refund == \E k \in Range(refund_keywords) : Contains(k, d)
        type == processed[1].transaction_type
    IN  /\ income => type = "income"
        /\ (~income /\ refund) => type = "refund"
        /\ (~income /\ ~refund) => type = "expense"
        /\ type = "refund" => (refund /\ ~income)

C3_BothSetsMatchClassified ==
  /\ Classified
  /\ raw[1].amount >= 0
  /\ \E k \in Range(income_keywords) : Contains(k, lower(raw[1].title))
  /\ \E k \in Range(refund_keywords) : Contains(k, lower(raw[1].title))
  /\ processed[1].transaction_type = "income"

\* the positions of the mapping whose category has a keyword in the text
MatchingRules(d) ==
  { k \in 1..Len(category_keywords) :
      \E w \in Range(category_keywords[k].keywords) : Contains(w, d) }

\* C4: the category is that of the earliest-declared rule with a keyword
\* in the lowercased description, and "Outros" when no rule has one; it is
\* decided by the description alone.
C4_FirstMatchWins ==
  Classified =>
    LET matching == MatchingRules(lower(processed[1].title))
    IN  IF matching = {} THEN processed[1].category = "Outros"
        ELSE \E k \in matching :
               /\ \A j \in matching : k <= j
               /\ processed[1].category = category_keywords[k].category

C4_TwoCategoriesMatchClassified ==
  /\ Classified
  /\ Cardinality(MatchingRules(lower(processed[1].title))) >= 2

Reverse(rows) == [i \in 1..Len(rows) |-> rows[Len(rows) + 1 - i]]

\* the rows in ascending date order, rows of one date in their input order
RECURSIVE StableSortByDate(_)
StableSortByDate(rows) ==
  IF rows = <<>> THEN <<>>
  ELSE LET first == CHOOSE i \in 1..Len(rows) :
                      /\ \A j \in 1..Len(rows) : rows[i].date <= rows[j].date
                      /\ \A j \in 1..(i - 1) : rows[j].date # rows[i].date
       IN  <<rows[first]>> \o
           StableSortByDate(SubSeq(rows, 1, first - 1) \o
                            SubSeq(rows, first + 1, Len(rows)))

\* the signed amounts of the records of a raw table, in its row order
SignedAmounts(config, dataframe) ==
  LET kept == DropNaT(dataframe)
  IN  [i \in 1..Len(kept) |->
         [ date |-> kept[i].date,
           amount |-> _classify_transaction(FillDescription(kept[i].title),
                                            kept[i].amount, config).signed ]]

DistinctDates(rows) ==
  \A i, j \in 1..Len(rows) : i # j => rows[i].date # rows[j].date

\* C6, as claimed: running_balance is the prefix sum of the signed amount
\* over the records in ascending timestamp order, records of one timestamp
\* in their input order.
C6_BalanceIsStablePrefixSum ==
  stage = "processed" =>
    Column(processed, "running_balance") =
      cumsum(Column(StableSortByDate(SignedAmounts(cfg, raw)), "amount"))

\* C7, as claimed: prepare_transactions on the reversed table returns the
\* same running balances.
C7_ReversalKeepsBalances ==
  stage = "processed" =>
    \A reversed \in prepare_transactions(cfg, Reverse(raw)) :
       Column(reversed, "running_balance") =
         Column(processed, "running_balance")

\* C7, amended: when no two records share a timestamp, prepare_transactions
\* on the reversed table returns the same running balances.
C7_ReversalKeepsBalancesOfDistinctDates ==
  (stage = "processed" /\ DistinctDates(processed)) =>
    \A reversed \in prepare_transactions(cfg, Reverse(raw)) :
       Column(reversed, "running_balance") =
         Column(processed, "running_balance")

C7_UnsortedDistinctDatesPrepared ==
  /\ stage = "processed"
  /\ DistinctDates(processed)
  /\ Len(processed) >= 2
  /\ ~IsSortedByDate(DropNaT(raw))
  /\ Column(processed, "running_balance") #
       cumsum(Column(SignedAmounts(cfg, raw), "amount"))

FeatureColumns ==
  { "rolling_7d_spend", "rolling_30d_spend", "rolling_90d_spend",
    "rolling_7d_income", "rolling_30d_income", "daily_spend_zscore",
    "month_total_expense", "month_total_income" }

\* the input columns of a record of the feature table
Record(row) == [f \in (DOMAIN row) \ FeatureColumns |-> row[f]]

\* C8, as claimed: whatever the order of the input rows, records of equal
\* timestamps included, each record gets the same feature values.
C8_FeaturesIgnoreRowOrder ==
  stage = "features" =>
    \A permuted \in RowOrders(processed) :
       \A other \in engineer_features(cfg, permuted) :
          Range(other) = Range(features)

\* C9, as claimed: the features of a record are the same in a table that
\* agrees with this one on every record up to the record's timestamp and
\* holds no later record.  The order sort_values gave the rows of equal
\* timestamps is taken to be the same in both tables.
C9_NoFutureLeakage ==
  stage = "features" =>
    \A i \in 1..Len(features) :
       LET sorted == [j \in 1..Len(features) |-> Record(features[j])]
           upto == SelectSeq(sorted, LAMBDA r : r.date <= sorted[i].date)
       IN  FeaturesOfSorted(upto)[i] = features[i]

(***************************************************************************)
(* Properties of the quality assessment (SpecQuality).                     *)
(***************************************************************************)
\* the calendar months of the records given to assess_data_quality
CalendarMonths == { MonthOfDay(DayOf(anomalies[i].date)) : i \in 1..Len(anomalies) }

InsufficientHistory ==
  /\ stage = "quality"
  /\ Cardinality(CalendarMonths) >= 1
  /\ Cardinality(CalendarMonths) < cfg.quality.min_months

\* C10: with at least one and fewer than min_months calendar months, the
\* summary has one row per month, every row with quality_score 0 and
\* quality_flag false, and no model is fitted.
C10_FewMonthsScoreZero ==
  InsufficientHistory =>
    LET summary == quality.monthly_summary
    IN  /\ Len(summary) = Cardinality(CalendarMonths)
        /\ { MonthOfDay(DayOf(summary[k].month)) : k \in 1..Len(summary) } =
             CalendarMonths
        /\ \A k \in 1..Len(summary) :
              /\ summary[k].quality_score = Num(0)
              /\ summary[k].quality_flag = FALSE
        /\ quality.model = None

C10_ThreeMonthsAssessed ==
  /\ InsufficientHistory
  /\ Cardinality(CalendarMonths) = min_months - 1
  /\ cfg.quality.min_months = min_months

(***************************************************************************)
(* Properties of the forecaster (SpecForecast).                            *)
(***************************************************************************)
\* the months of the classified table that hold an expense, ascending
ExpenseMonths ==
  SortedSeq({ processed[i].month : i \in
                { j \in 1..Len(processed) :
                    processed[j].transaction_type = "expense" } })

\* the expense of a month: the magnitudes of its expense records, summed
MonthlyExpense(month) ==
  SumSeq([i \in 1..Len(processed) |->
            IF /\ processed[i].transaction_type = "expense"
               /\ processed[i].month = month
              THEN abs(processed[i].amount) ELSE 0])

ExpenseHistory == [k \in 1..Len(ExpenseMonths) |-> MonthlyExpense(ExpenseMonths[k])]

\* value is the arithmetic mean of the expense history
IsHistoricalMean(value) ==
  /\ value.den > 0
  /\ value.num * Len(ExpenseHistory) = value.den * SumSeq(ExpenseHistory)

Forecasted == stage \in {"forecast", "insights"}

\* C11: with one or two months of expense history (and with none) the
\* seasonal model is not invoked and the summary is the fixed text; with
\* one or two months the forecast is not empty and every value of it is the
\* arithmetic mean of the monthly expense history.
C11_ShortHistoryForecastsMean ==
  (Forecasted /\ Len(ExpenseHistory) < 3) =>
    /\ seasonal = "not invoked"
    /\ forecast.model_summary = "Media simples por falta de dados."
    /\ Column(forecast.history, "monthly_expense") = ExpenseHistory
    /\ Len(ExpenseHistory) >= 1 =>
         /\ Len(forecast.forecast) >= 1
         /\ \A i \in 1..Len(forecast.forecast) :
               IsHistoricalMean(forecast.forecast[i])

C11_TwoUnequalMonthsForecast ==
  /\ stage = "forecast"
  /\ Len(ExpenseHistory) = 2
  /\ ExpenseHistory[1] # ExpenseHistory[2]
  /\ Len(forecast.forecast) = horizon_months

\* C12, as claimed: with three or more months of history the call returns
\* also when the seasonal model raises, and then every forecast value is the
\* historical mean, the series is not empty and has horizon_months entries,
\* and the summary is not empty and holds the reason of the failure.
C12_FailureFallsBackToMean ==
  /\ (stage = "quality" /\ Len(ExpenseHistory) >= 3) =>
       forecast_expenses(cfg, anomalies) # {}
  /\ (Forecasted /\ seasonal = "raised") =>
       /\ Len(ExpenseHistory) >= 3
       /\ \A i \in 1..Len(forecast.forecast) :
             IsHistoricalMean(forecast.forecast[i])
       /\ Len(forecast.forecast) >= 1
       /\ Len(forecast.forecast) = cfg.forecast.horizon_months
       /\ \E exc \in ExceptionMessages :
             /\ exc # ""
             /\ forecast.model_summary = FallbackSummary(exc)

\* C13, as claimed: whatever the branch and the configured horizon, the
\* forecast has exactly horizon_months entries, and the short-history branch
\* and the fallback after a failure project the same number of periods.
C13_ForecastHasHorizonEntries ==
  Forecasted =>
    /\ Len(forecast.forecast) = cfg.forecast.horizon_months
    /\ date_range_tail(ShortHistoryPeriods(cfg)) =
         date_range_tail(FallbackPeriods(cfg))

\* C14: the step of the forecaster changes no table and no result of another
\* stage, and what forecast_expenses can return is the same on the
\* classifier's table, on the feature table and on the table the anomaly
\* scorer wrote anomaly_score and is_anomaly into; the forecast of the run is
\* one of these results.
C14_ForecastIndependentOfScoring ==
  [][ stage' = "forecast" =>
        /\ UNCHANGED <<input, raw, processed, features, anomalies, quality,
                       insights>>
        /\ [ history |-> forecast'.history, forecast |-> forecast'.forecast,
             model_summary |-> forecast'.model_summary,
             seasonal |-> seasonal' ] \in forecast_expenses(cfg, processed)
        /\ forecast_expenses(cfg, features) = forecast_expenses(cfg, processed)
        /\ forecast_expenses(cfg, anomalies) = forecast_expenses(cfg, processed)
    ]_vars

C14_AnomalousExpenseForecast ==
  /\ stage = "forecast"
  /\ \E i \in 1..Len(anomalies) :
        /\ anomalies[i].is_anomaly
        /\ anomalies[i].transaction_type = "expense"
        /\ anomalies[i].amount # 0
  /\ Len(forecast.history) >= 2

(***************************************************************************)
(* Properties of the tables of a run (SpecForecast).                       *)
(***************************************************************************)
\* the names of the tables the stages make
OwnedTables ==
  { "input", "raw", "processed", "features", "anomalies", "quality_summary",
    "forecast", "report_anomaly_table" }

\* no two of the tables made so far are one object
FreshTables ==
  \A a, b \in OwnedTables :
     (a # b /\ ids[a] # 0 /\ ids[b] # 0) => ids[a] # ids[b]

StagesDone ==
  [ start |-> 0, raw |-> 1, processed |-> 2, features |-> 3, anomalies |-> 4,
    quality |-> 5, forecast |-> 6, insights |-> 7 ]

\* C15: a step of run_analysis leaves the table it was called with, and every
\* table and result an earlier stage returned, as it was (rows, columns and
\* values), and the table it returns is an object no earlier table is.
C15_StagesLeaveTheirInputs ==
  [][ LET done == StagesDone[stage]
      IN  /\ input' = input
          /\ done >= 1 => raw' = raw
          /\ done >= 2 => processed' = processed
          /\ done >= 3 => features' = features
          /\ done >= 4 => anomalies' = anomalies
          /\ done >= 5 => quality' = quality
          /\ done >= 6 => forecast' = forecast
          /\ FreshTables'
    ]_vars

C15_ReportOfScoredTable ==
  /\ stage = "insights"
  /\ Len(input) = 3
  /\ features # anomalies
  /\ Len(insights.anomaly_table) = 1
  /\ Len(quality.monthly_summary) >= 2

(***************************************************************************)
(* Properties of the insight report (SpecForecast, SpecReport).            *)
(***************************************************************************)
\* the days of the scored table that hold an expense
ExpenseDays ==
  { anomalies[i].date_only : i \in
      { j \in 1..Len(anomalies) : anomalies[j].transaction_type = "expense" } }

\* the magnitude of the expenses of the scored table
ExpenseMagnitude ==
  SumSeq([i \in 1..Len(anomalies) |->
            IF anomalies[i].transaction_type = "expense"
              THEN anomalies[i].abs_amount ELSE 0])

\* C16, as claimed: net_cashflow is total_income - total_expense, and
\* average_daily_spend is the mean of the expense sums of the days that hold
\* an expense, and exactly zero when no day does.
C16_CashflowMetrics ==
  stage = "insights" =>
    LET metrics == insights.cashflow_metrics
        average == metrics.average_daily_spend
    IN  /\ metrics.net_cashflow = metrics.total_income - metrics.total_expense
        /\ IF ExpenseDays = {}
             THEN average = Ratio(0, 1)
           ELSE /\ average.den > 0
                /\ average.num * Cardinality(ExpenseDays) =
                     average.den * ExpenseMagnitude

\* the kinds of the highlights of a report, in their order
HighlightKinds(report) ==
  [i \in 1..Len(report.highlights) |-> report.highlights[i].kind]

\* the kinds of the highlights whose data the report holds
ExpectedKinds(report) ==
  (IF Len(report.category_breakdown) > 0
     THEN <<"Maior categoria de gasto">> ELSE <<>>)
  \o <<"Ticket medio diario">>
  \o (IF Len(report.forecast.forecast) > 0
        THEN <<"Gasto previsto para o proximo mes">> ELSE <<>>)
  \o (IF Len(report.anomaly_table) > 0
        THEN <<"Foram encontrados gastos atipicos">> ELSE <<>>)
  \o (IF \E k \in 1..Len(report.quality_summary) :
            report.quality_summary[k].quality_flag
        THEN <<"Meses com possivel inconsistencia de dados">> ELSE <<>>)

\* C17, as claimed: generate_insight_report returns a report whatever signal
\* is absent (no expense category, an empty forecast, no anomaly or no
\* anomaly information, no quality assessment or no flagged month), and the
\* report holds exactly the highlights whose data is present.
C17_ReportWithoutOptionalSignals ==
  /\ stage # "report failed"
  /\ stage = "insights" => HighlightKinds(insights) = ExpectedKinds(insights)

(***************************************************************************)
(* Properties of a whole run (SpecForecast).                               *)
(***************************************************************************)
\* the records of the input that have a date
ValidRecords == DropNaT(input)

\* C18: a run fails only when the input holds no record with a date.  With
\* one or more such records no stage fails: each stage reached can return,
\* and a finished run made its tables in the order classify, features,
\* anomaly, quality, forecast, insights.
C18_RunCompletesOnValidInput ==
  /\ stage = "failed" => Len(ValidRecords) = 0
  /\ Len(ValidRecords) > 0 =>
       /\ stage = "raw" => prepare_transactions(cfg, raw) # {}
       /\ stage = "processed" => engineer_features(cfg, processed) # {}
       /\ stage = "features" => detect_anomalies(cfg, features) # {}
       /\ stage = "anomalies" => assess_data_quality(cfg, anomalies) # {}
       /\ stage = "quality" => forecast_expenses(cfg, anomalies) # {}
       /\ stage = "forecast" =>
            generate_insight_report(cfg, anomalies, forecast, quality) # {}
       /\ stage = "insights" =>
            /\ ids.raw < ids.processed
            /\ ids.processed < ids.features
            /\ ids.features < ids.anomalies
            /\ ids.anomalies < ids.quality_summary
            /\ ids.quality_summary < ids.forecast
            /\ ids.forecast < ids.report_anomaly_table
            /\ insights.headline # ""

C18_IncomeOnlyRunCompleted ==
  /\ stage = "insights"
  /\ Len(input) = 1
  /\ anomalies[1].transaction_type = "income"
  /\ Len(forecast.history) = 0
  /\ Len(insights.category_breakdown) = 0

(***************************************************************************)
(* Properties of the rolling and monthly features (Spec).                  *)
(***************************************************************************)
\* the magnitudes of the records of the feature table that satisfy Counted
\* and lie in the days-long window that ends at, and includes, the time of
\* record i
WindowMagnitude(i, days, Counted(_)) ==
  SumSeq([j \in 1..Len(features) |->
            IF /\ Counted(features[j])
               /\ features[j].date > features[i].date - days * 24
               /\ features[j].date <= features[i].date
              THEN features[j].abs_amount ELSE 0])

IsExpense(r) == r.transaction_type = "expense"

IsIncomeOrRefund(r) == r.transaction_type \in {"income", "refund"}

\* C19, as claimed: rolling_Nd_spend is the sum of the expense magnitudes of
\* the records of the trailing N-day window that ends at and includes the
\* record's own timestamp (N = 7, 30, 90), and rolling_Nd_income the same sum
\* over the income and refund magnitudes (N = 7, 30).
C19_RollingSumsOfMagnitudes ==
  stage = "features" =>
    \A i \in 1..Len(features) :
       /\ features[i].rolling_7d_spend = WindowMagnitude(i, 7, IsExpense)
       /\ features[i].rolling_30d_spend = WindowMagnitude(i, 30, IsExpense)
       /\ features[i].rolling_90d_spend = WindowMagnitude(i, 90, IsExpense)
       /\ features[i].rolling_7d_income =
            WindowMagnitude(i, 7, IsIncomeOrRefund)
       /\ features[i].rolling_30d_income =
            WindowMagnitude(i, 30, IsIncomeOrRefund)

\* the magnitudes of the records of the feature table that satisfy Counted
\* and lie in the calendar month of record i
MonthMagnitude(i, Counted(_)) ==
  SumSeq([j \in 1..Len(features) |->
            IF Counted(features[j]) /\ features[j].month = features[i].month
              THEN features[j].abs_amount ELSE 0])

\* C20, as claimed: month_total_expense and month_total_income of a record
\* are defined and are the expense and the income total (of either sign) of
\* the calendar month that holds the record.
C20_MonthTotalsOfOwnMonth ==
  stage = "features" =>
    \A i \in 1..Len(features) :
       /\ features[i].month_total_expense # NaN
       /\ features[i].month_total_income # NaN
       /\ abs(features[i].month_total_expense[1]) = MonthMagnitude(i, IsExpense)
       /\ abs(features[i].month_total_income[1]) =
            MonthMagnitude(i, IsIncomeOrRefund)

\* the stored amount of every expense record is the signed amount the
\* classification wrote: not positive, and the negated magnitude
ExpensesStoredSigned ==
  \A i \in 1..Len(processed) :
     processed[i].transaction_type = "expense" =>
       /\ processed[i].amount <= 0
       /\ processed[i].amount = -processed[i].abs_amount

\* C21, as claimed: under every configuration, the one with a renamed amount
\* column included, the monthly history of the forecast holds the months of
\* the expense records in ascending order, each with the non-negative sum of
\* the magnitudes of its expense records, and total_expense of the report is
\* the same non-negative magnitude.
C21_HistoryAndTotalAreMagnitudes ==
  /\ Forecasted =>
       /\ ExpensesStoredSigned
       /\ Column(forecast.history, "month") = ExpenseMonths
       /\ Column(forecast.history, "monthly_expense") = ExpenseHistory
       /\ \A k \in 1..Len(forecast.history) :
            /\ forecast.history[k].monthly_expense >= 0
            /\ k > 1 => forecast.history[k - 1].month < forecast.history[k].month
  /\ stage = "insights" =>
       /\ insights.cashflow_metrics.total_expense = SumSeq(ExpenseHistory)
       /\ insights.cashflow_metrics.total_expense >= 0

\* the claim restricted to the default amount column name
C21_DefaultColumnMagnitudes ==
  cfg.amount_column = "amount" => C21_HistoryAndTotalAreMagnitudes

\* a report of a run whose amount column is renamed, over an expense
C21_RenamedColumnReport ==
  /\ stage = "insights"
  /\ cfg.amount_column # "amount"
  /\ ExpenseHistory # <<>>

\* the prepared table of the run exists
Prepared == stage \notin {"start", "raw", "failed"}

\* what the claim compares of a record, with the date and description that
\* tell the records apart
TypesAndAmounts(table) ==
  [i \in 1..Len(table) |->
     [ date |-> table[i].date, title |-> table[i].title,
       transaction_type |-> table[i].transaction_type,
       amount |-> table[i].amount ]]

\* two tables hold the same classified records, each as many times
SameClassification(before, after) ==
  LET b == TypesAndAmounts(before)
      a == TypesAndAmounts(after)
  IN  /\ Len(a) = Len(b)
      /\ \A record \in Range(a) \cup Range(b) :
           Cardinality({ i \in 1..Len(a) : a[i] = record })
             = Cardinality({ i \in 1..Len(b) : b[i] = record })

\* C22, as claimed: prepare_transactions applied to a table it produced
\* leaves the transaction_type and the stored amount of every record as they
\* were.
C22_ReprocessingKeepsClassification ==
  Prepared => SameClassification(input, processed)

\* what re-processing does keep: the magnitude of every record, and the type
\* and amount of the records whose stored amount is positive and whose
\* description holds a keyword of their type
C22_KeywordRecordsStable ==
  Prepared =>
    /\ Len(processed) = Len(input)
    /\ \A i \in 1..Len(input) :
         \E j \in 1..Len(processed) :
            /\ processed[j].date = input[i].date
            /\ processed[j].title = input[i].title
            /\ processed[j].abs_amount = input[i].abs_amount
            /\ (input[i].title \in {"Salary", "Chargeback"}) =>
                 /\ processed[j].transaction_type = input[i].transaction_type
                 /\ processed[j].amount = input[i].amount

\* a stored expense was prepared again
C22_ExpenseReprocessed ==
  /\ Prepared
  /\ \E i \in 1..Len(input) : input[i].transaction_type = "expense"
====
